---- MODULE Spec2Model ----
(***************************************************************************)
(* Model of moda-plans-csv.py: the People household aggregate, the        *)
(* command-line argument loop, the locality / intake / plans-page request *)
(* sequence and the CSV flattener.                                        *)
(*                                                                         *)
(* Encoding of Python values:                                              *)
(*   - a str is a sequence of one-character strings, so that parsing and  *)
(*     formatting act on characters;                                      *)
(*   - a reference that may be None is a sequence of length <= 1: None is *)
(*     <<>> and an object x is <<x>>;                                     *)
(*   - a dict whose iteration order matters (a Plan record) is a         *)
(*     sequence of <<key, value>> pairs; any other dict is a TLA+ record  *)
(*     or function.                                                       *)
(***************************************************************************)
EXTENDS Integers, Sequences, FiniteSets, TLC

VARIABLES
    pc,          \* position of the run
    err,         \* the exception that ended the run, NoErr while none
    insured,     \* People.insured
    spouse,      \* People.spouse
    children,    \* People.children
    addLog,      \* history: the data of every People.add call that returned
    payload,     \* value returned by People.covered()
    zipcode,     \* sys.argv[1]
    argv,        \* the elements of sys.argv[2:] the loop has consumed
    person,      \* the loop's partially collected person entry
    reqs,        \* history: the HTTP requests issued through session
    resps,       \* history: the decoded responses to those requests
    loc,         \* set_locality: the (zipcode, county, state) it unpacked
    locality,    \* value returned by set_locality
    plans,       \* value returned by get_plans
    resultset,   \* get_plans_csv: resultset["Results"]
    ri,          \* get_plans_csv: number of results the loop has consumed
    cols,        \* get_plans_csv: cols
    header,      \* history: the header row handed to writer.writerow
    out,         \* history: the data rows handed to writer.writerow
    printed      \* history: the lines written by print

vars == <<pc, err, insured, spouse, children, addLog, payload, zipcode, argv,
          person, reqs, resps, loc, locality, plans, resultset, ri, cols, header,
          out, printed>>

peopleVars == <<insured, spouse, children, addLog, payload>>
mainVars   == <<zipcode, argv, person>>
netVars    == <<reqs, resps, loc, locality, plans>>
csvVars    == <<resultset, ri, cols, header, out, printed>>

----------------------------------------------------------------------------
(* Bounds *)

MaxAdds    == 3   \* People.add calls in one run of SpecPeople
MaxArgs    == 6   \* length of sys.argv[2:]
MaxMatches == 2   \* entries of the locality response's zipCodes
MaxResults == 2   \* entries of resultset["Results"]
MaxKeys    == 3   \* keys of one Plan record

----------------------------------------------------------------------------
(* Python values *)

None == <<>>
Some(x) == <<x>>

NoErr == [type |-> "", msg |-> <<>>]
Raise(t, m) == [type |-> t, msg |-> m]

\* string literals of the program and of the inputs
S_self   == <<"-", "-", "s", "e", "l", "f">>
S_spouse == <<"-", "-", "s", "p", "o", "u", "s", "e">>
S_child  == <<"-", "-", "c", "h", "i", "l", "d">>
S_help   == <<"-", "-", "h", "e", "l", "p">>
S_pet    == <<"-", "-", "p", "e", "t">>
S_Jane   == <<"J", "a", "n", "e">>
S_Jo     == <<"J", "o">>
D_1_2_1985   == <<"1", "/", "2", "/", "1", "9", "8", "5">>
D_3_4_2015   == <<"3", "/", "4", "/", "2", "0", "1", "5">>
D_01_02_1985 == <<"0", "1", "/", "0", "2", "/", "1", "9", "8", "5">>
D_03_04_2015 == <<"0", "3", "/", "0", "4", "/", "2", "0", "1", "5">>
D_2_30_2000  == <<"2", "/", "3", "0", "/", "2", "0", "0", "0">>
Z_55555  == <<"5", "5", "5", "5", "5">>
Z_97103  == <<"9", "7", "1", "0", "3">>
Z_971    == <<"9", "7", "1">>

DigitChars == <<"0", "1", "2", "3", "4", "5", "6", "7", "8", "9">>
IsDigit(c) == \E i \in 1..10 : DigitChars[i] = c
DigitVal(c) == (CHOOSE i \in 1..10 : DigitChars[i] = c) - 1
DigitChar(n) == DigitChars[n + 1]

RECURSIVE NumVal(_)
NumVal(f) == IF f = <<>> THEN 0
             ELSE 10 * NumVal(SubSeq(f, 1, Len(f) - 1)) + DigitVal(f[Len(f)])

AllDigits(f) == \A i \in 1..Len(f) : IsDigit(f[i])

----------------------------------------------------------------------------
(* normalize_date: dateutil's parser.parse followed by                     *)
(* strftime("%m/%d/%Y").  The parser is modelled on the inputs used here:  *)
(* three numeric fields separated by "/", the last one a four-digit year;  *)
(* every other text is rejected.  As in dateutil, the first field is the   *)
(* month unless it exceeds 12, and an impossible day or month is an error. *)

SlashPos(s) == {i \in 1..Len(s) : s[i] = "/"}
MinOf(S) == CHOOSE x \in S : \A y \in S : x <= y
MaxOf(S) == CHOOSE x \in S : \A y \in S : x >= y

\* the three fields of a text whose two "/" are at positions p1 < p2
SplitAt(s, p1, p2) ==
    <<SubSeq(s, 1, p1 - 1), SubSeq(s, p1 + 1, p2 - 1), SubSeq(s, p2 + 1, Len(s))>>

DateFields(s) == SplitAt(s, MinOf(SlashPos(s)), MaxOf(SlashPos(s)))

IsLeap(y) == (y % 4 = 0 /\ y % 100 # 0) \/ y % 400 = 0
DaysIn(m, y) == IF m = 2 THEN (IF IsLeap(y) THEN 29 ELSE 28)
                ELSE IF m \in {4, 6, 9, 11} THEN 30 ELSE 31

\* the date of month m, day d, year y: None when there is no such date
ValidDate(m, d, y) ==
    IF m \in 1..12 /\ d \in 1..DaysIn(m, y) /\ y >= 1 THEN Some(<<m, d, y>>) ELSE None

\* the first field a is the month unless it exceeds 12
ResolveYmd(a, b, y) == ValidDate(IF a > 12 THEN b ELSE a, IF a > 12 THEN a ELSE b, y)

ResolveFields(f) ==
    IF /\ Len(f[1]) \in 1..2 /\ Len(f[2]) \in 1..2 /\ Len(f[3]) = 4
       /\ AllDigits(f[1]) /\ AllDigits(f[2]) /\ AllDigits(f[3])
    THEN ResolveYmd(NumVal(f[1]), NumVal(f[2]), NumVal(f[3]))
    ELSE None

\* the (month, day, year) the parser resolves, None when it raises
ParseDate(s) ==
    IF Cardinality(SlashPos(s)) # 2 THEN None ELSE ResolveFields(DateFields(s))

Pad2(n) == <<DigitChar(n \div 10), DigitChar(n % 10)>>
Pad4(n) == <<DigitChar(n \div 1000), DigitChar((n \div 100) % 10),
             DigitChar((n \div 10) % 10), DigitChar(n % 10)>>

strftime(mdy) == Pad2(mdy[1]) \o <<"/">> \o Pad2(mdy[2]) \o <<"/">> \o Pad4(mdy[3])

\* the canonical text of a parsed date, None when the parser raised
Canonical(parsed) == IF parsed = None THEN None ELSE Some(strftime(parsed[1]))

\* None when parser.parse raises, the canonical text otherwise
normalize_date(date) == Canonical(ParseDate(date))

----------------------------------------------------------------------------
(* class People *)

Person(name, dob, type) ==
    [FirstName |-> name, DateOfBirth |-> dob, PersonId |-> None, Type |-> type]

\* the fields of a People and the exception of a call (NoErr when it returned)
Outcome(ins, sp, ch, e) == [insured |-> ins, spouse |-> sp, children |-> ch, err |-> e]

\* lines 54-68 with the child branch replacing the list instead of appending
add_person_replaces_children(ins, sp, ch, data, dob) ==
    IF dob = None THEN Outcome(ins, sp, ch, Raise("ParserError", <<data[3]>>))
    ELSE IF data[1] = S_self
    THEN Outcome(Some(Person(data[2], dob[1], 1)), sp, ch, NoErr)
    ELSE IF data[1] = S_spouse
    THEN Outcome(ins, Some(Person(data[2], dob[1], 2)), ch, NoErr)
    ELSE IF data[1] = S_child
    THEN Outcome(ins, sp, Some(<<Person(data[2], dob[1], 3)>>), NoErr)
    ELSE Outcome(ins, sp, ch, Raise("ValueError", <<"Unknown person type: %s", data[1]>>))

\* lines 54-68: dob is the value of normalize_date(data[2]), None when it raised
add_person(ins, sp, ch, data, dob) ==
    IF dob = None THEN Outcome(ins, sp, ch, Raise("ParserError", <<data[3]>>))
    ELSE IF data[1] = S_self
    THEN Outcome(Some(Person(data[2], dob[1], 1)), sp, ch, NoErr)
    ELSE IF data[1] = S_spouse
    THEN Outcome(ins, Some(Person(data[2], dob[1], 2)), ch, NoErr)
    ELSE IF data[1] = S_child
    THEN Outcome(ins, sp,
                 IF ch = None THEN Some(<<Person(data[2], dob[1], 3)>>)
                 ELSE Some(Append(ch[1], Person(data[2], dob[1], 3))),
                 NoErr)
    ELSE Outcome(ins, sp, ch, Raise("ValueError", <<"Unknown person type: %s", data[1]>>))

\* People.add(data) on a People with fields ins, sp, ch: the fields after
\* the call and the exception it raised
add(ins, sp, ch, data) ==
    IF Len(data) # 3
    THEN Outcome(ins, sp, ch, Raise("ValueError", <<"Invalid person entry: %s", data>>))
    ELSE add_person(ins, sp, ch, data, normalize_date(data[3]))

\* the list People.covered() assembles
CoveredList(ins, sp, ch) ==
    (IF ins # None THEN <<ins[1]>> ELSE <<>>)
    \o (IF sp # None THEN <<sp[1]>> ELSE <<>>)
    \o (IF ch # None THEN ch[1] ELSE <<>>)

\* People.covered() without the spouse-requires-insured check
covered_no_spouse_check(ins, sp, ch) ==
    IF ins = None /\ sp = None /\ ch = None
    THEN [err |-> Raise("ValueError",
                        <<"Must have at least either insured set or >= child set.">>),
          ret |-> None]
    ELSE IF ins = None /\ sp = None
    THEN [err |-> NoErr,
          ret |-> Some([OnlyChildCoverage |-> TRUE,
                        CoveredPersons |-> CoveredList(ins, sp, ch)])]
    ELSE [err |-> NoErr, ret |-> Some([CoveredPersons |-> CoveredList(ins, sp, ch)])]

\* People.covered() setting the children-only flag whenever no spouse is set
covered_flag_without_spouse(ins, sp, ch) ==
    IF ins = None /\ sp # None
    THEN [err |-> Raise("ValueError", <<"Must have insured set when spouse is set.">>),
          ret |-> None]
    ELSE IF ins = None /\ sp = None /\ ch = None
    THEN [err |-> Raise("ValueError",
                        <<"Must have at least either insured set or >= child set.">>),
          ret |-> None]
    ELSE IF sp = None
    THEN [err |-> NoErr,
          ret |-> Some([OnlyChildCoverage |-> TRUE,
                        CoveredPersons |-> CoveredList(ins, sp, ch)])]
    ELSE [err |-> NoErr, ret |-> Some([CoveredPersons |-> CoveredList(ins, sp, ch)])]

\* People.covered(): the exception it raises (NoErr when it returns) and the
\* dict it returns
covered(ins, sp, ch) ==
    IF ins = None /\ sp # None
    THEN [err |-> Raise("ValueError", <<"Must have insured set when spouse is set.">>),
          ret |-> None]
    ELSE IF ins = None /\ sp = None /\ ch = None
    THEN [err |-> Raise("ValueError",
                        <<"Must have at least either insured set or >= child set.">>),
          ret |-> None]
    ELSE IF ins = None /\ sp = None
    THEN [err |-> NoErr,
          ret |-> Some([OnlyChildCoverage |-> TRUE,
                        CoveredPersons |-> CoveredList(ins, sp, ch)])]
    ELSE [err |-> NoErr, ret |-> Some([CoveredPersons |-> CoveredList(ins, sp, ch)])]

----------------------------------------------------------------------------
(* Inputs *)

Flags == {S_self, S_spouse, S_child}
Names == {S_Jane, S_Jo}
Dates == {D_1_2_1985, D_3_4_2015}

\* the entries handed to People.add: well-formed ones, one of the wrong
\* length, one with an unknown role and one with an impossible date
AddInputs ==
    {<<f, n, d>> : f \in Flags, n \in Names, d \in Dates}
    \cup {<<S_self, S_Jane>>, <<S_pet, S_Jo, D_1_2_1985>>,
          <<S_child, S_Jo, D_2_30_2000>>}

----------------------------------------------------------------------------
(* Initial values shared by the specifications *)

InitPeopleVars ==
    /\ insured = None
    /\ spouse = None
    /\ children = None
    /\ addLog = <<>>
    /\ payload = None

InitMainVars ==
    /\ zipcode = None
    /\ argv = <<>>
    /\ person = None

InitNetVars ==
    /\ reqs = <<>>
    /\ resps = <<>>
    /\ loc = None
    /\ locality = None
    /\ plans = None

InitCsvVars ==
    /\ resultset = <<>>
    /\ ri = 0
    /\ cols = None
    /\ header = None
    /\ out = <<>>
    /\ printed = <<>>

----------------------------------------------------------------------------
(* SpecPeople: a People object under any sequence of add calls, then one  *)
(* covered() call.  An exception ends the run.                            *)

InitPeople ==
    /\ pc = "people"
    /\ err = NoErr
    /\ InitPeopleVars /\ InitMainVars /\ InitNetVars /\ InitCsvVars

PeopleAdd(data) ==
    /\ pc = "people"
    /\ Len(addLog) < MaxAdds
    /\ \E r \in {add(insured, spouse, children, data)} :
       /\ insured' = r.insured
       /\ spouse' = r.spouse
       /\ children' = r.children
       /\ err' = r.err
       /\ IF r.err = NoErr
          THEN addLog' = Append(addLog, data) /\ pc' = "people"
          ELSE addLog' = addLog /\ pc' = "add_raised"
    /\ UNCHANGED <<payload, mainVars, netVars, csvVars>>

PeopleCovered ==
    /\ pc = "people"
    /\ \E r \in {covered(insured, spouse, children)} :
       /\ err' = r.err
       /\ payload' = r.ret
       /\ pc' = IF r.err = NoErr THEN "covered" ELSE "covered_raised"
    /\ UNCHANGED <<insured, spouse, children, addLog, mainVars, netVars, csvVars>>

NextPeople ==
    \/ \E data \in AddInputs : PeopleAdd(data)
    \/ PeopleCovered

SpecPeople == InitPeople /\ [][NextPeople]_vars

----------------------------------------------------------------------------
(* Properties of People, checked under SpecPeople *)

\* the household as the returned add calls describe it
Added(flag) == \E i \in 1..Len(addLog) : addLog[i][1] = flag
LastAdded(flag) ==
    LET I == {i \in 1..Len(addLog) : addLog[i][1] = flag}
    IN  IF I = {} THEN <<>> ELSE <<addLog[MaxOf(I)]>>
IsChildEntry(data) == data[1] = S_child
Brief(p) == <<p.Type, p.FirstName, p.DateOfBirth>>
BriefOf(data, type) == <<type, data[2], normalize_date(data[3])[1]>>
BriefAll(ps) == [i \in 1..Len(ps) |-> Brief(ps[i])]
ExpectedCovered ==
    LET kids == SelectSeq(addLog, IsChildEntry)
    IN  (IF Added(S_self) THEN <<BriefOf(LastAdded(S_self)[1], 1)>> ELSE <<>>)
        \o (IF Added(S_spouse) THEN <<BriefOf(LastAdded(S_spouse)[1], 2)>> ELSE <<>>)
        \o [i \in 1..Len(kids) |-> BriefOf(kids[i], 3)]
InvalidHousehold ==
    \/ Added(S_spouse) /\ ~Added(S_self)
    \/ ~Added(S_self) /\ ~Added(S_spouse) /\ ~Added(S_child)

\* C1: covered() raises ValueError exactly for a household with a spouse and
\* no insured, or with no insured, no spouse and no child; for every other
\* household built by add calls it returns a payload.
C1_CoveredValidates ==
    /\ pc = "covered_raised" => InvalidHousehold /\ err.type = "ValueError" /\ payload = None
    /\ pc = "covered" => ~InvalidHousehold /\ err = NoErr /\ payload # None

C1_Witness == pc = "covered_raised" /\ Added(S_spouse) /\ Added(S_child) /\ ~Added(S_self)

\* C2: a returned payload has the key OnlyChildCoverage, with value TRUE,
\* exactly when the household has no insured and no spouse.
C2_OnlyChildFlag ==
    pc = "covered" =>
        /\ ("OnlyChildCoverage" \in DOMAIN payload[1]) <=> (~Added(S_self) /\ ~Added(S_spouse))
        /\ "OnlyChildCoverage" \in DOMAIN payload[1] => payload[1].OnlyChildCoverage = TRUE

C2_Witness ==
    /\ pc = "covered" /\ "OnlyChildCoverage" \in DOMAIN payload[1]
    /\ Len(payload[1].CoveredPersons) = 2

\* C3: CoveredPersons is the last insured added (if any), then the last spouse
\* added (if any), then every child added, once each, in the order added; it
\* holds at most one person of Type 1 and at most one of Type 2.
C3_CoveredOrder ==
    pc = "covered" =>
        LET ps == payload[1].CoveredPersons IN
        /\ BriefAll(ps) = ExpectedCovered
        /\ Cardinality({i \in 1..Len(ps) : ps[i].Type = 1}) <= 1
        /\ Cardinality({i \in 1..Len(ps) : ps[i].Type = 2}) <= 1

C3_Witness ==
    /\ pc = "covered" /\ Len(addLog) = 3
    /\ LET ps == payload[1].CoveredPersons IN
       /\ Len(ps) = 3
       /\ ps[1].Type = 1 /\ ps[2].Type = 3 /\ ps[3].Type = 3
       /\ ps[2].FirstName = S_Jo /\ ps[3].FirstName = S_Jane
       /\ addLog[1][1] = S_child

----------------------------------------------------------------------------
(* SpecMain: the __main__ block up to the call of get_plans_csv.  The     *)
(* elements of sys.argv[2:] are drawn one by one as the loop reaches them. *)

\* zipre = re.compile(r'^\d{5}$'); zipre.match(z)
ZipMatches(z) == Len(z) = 5 /\ AllDigits(z)

\* lines 193-196: the entry being collected, after arg
Collect(p, arg) ==
    IF p = None /\ arg \in {S_self, S_spouse, S_child} THEN Some(<<arg>>)
    ELSE IF p # None THEN Some(Append(p[1], arg))
    ELSE p

\* the people, the loop variable person, the exception and the entry added
Step(r, p, added) ==
    [insured |-> r.insured, spouse |-> r.spouse, children |-> r.children,
     person |-> p, err |-> r.err, added |-> IF r.err = NoErr THEN added ELSE None]

\* lines 190-196 when person is complete: r is the outcome of people.add(person)
LoopAfterAdd(r, p, arg) ==
    IF r.err # NoErr THEN Step(r, p, None) ELSE Step(r, Collect(None, arg), p)

\* one iteration of "for arg in sys.argv[2:]" on a People with fields
\* ins, sp, ch and the loop variable person = p
LoopBody(ins, sp, ch, p, arg) ==
    IF p # None /\ Len(p[1]) = 3
    THEN LoopAfterAdd(add(ins, sp, ch, p[1]), p, arg)
    ELSE Step(Outcome(ins, sp, ch, NoErr), Collect(p, arg), None)

\* the statement after the loop, without its add call
AfterLoop_no_final_add(ins, sp, ch, p) ==
    Step(Outcome(ins, sp, ch, NoErr), p, None)

\* lines 197-198: the last collected entry is added
AfterLoop(ins, sp, ch, p) ==
    IF p # None /\ Len(p[1]) = 3
    THEN Step(add(ins, sp, ch, p[1]), p, p)
    ELSE Step(Outcome(ins, sp, ch, NoErr), p, None)

\* sys.argv[1]: absent, --help, a text that is no ZIP code, a ZIP code
ZipInputs == {None, Some(S_help), Some(Z_971), Some(Z_55555)}

Tokens == Flags \cup Names \cup Dates

InitMain ==
    /\ pc = "start"
    /\ err = NoErr
    /\ InitPeopleVars /\ InitMainVars /\ InitNetVars /\ InitCsvVars

\* the usage check: prints the usage and exits with status 0, or goes on
MainStart ==
    /\ pc = "start"
    /\ \E z \in ZipInputs :
         /\ zipcode' = z
         /\ pc' = IF z = None \/ z[1] = S_help \/ ~ZipMatches(z[1])
                  THEN "usage_exit0" ELSE "args"
    /\ UNCHANGED <<err, peopleVars, argv, person, netVars, csvVars>>

MainLoop(arg) ==
    /\ pc = "args"
    /\ Len(argv) < MaxArgs
    /\ argv' = Append(argv, arg)
    /\ \E r \in {LoopBody(insured, spouse, children, person, arg)} :
       /\ insured' = r.insured
       /\ spouse' = r.spouse
       /\ children' = r.children
       /\ person' = r.person
       /\ err' = r.err
       /\ addLog' = addLog \o r.added
       /\ pc' = IF r.err = NoErr THEN "args" ELSE "add_raised"
    /\ UNCHANGED <<payload, zipcode, netVars, csvVars>>

\* the loop is over: the last entry is added and get_plans_csv is called
MainEnd ==
    /\ pc = "args"
    /\ \E r \in {AfterLoop(insured, spouse, children, person)} :
       /\ insured' = r.insured
       /\ spouse' = r.spouse
       /\ children' = r.children
       /\ err' = r.err
       /\ addLog' = addLog \o r.added
       /\ pc' = IF r.err = NoErr THEN "parsed" ELSE "add_raised"
    /\ UNCHANGED <<payload, zipcode, argv, person, netVars, csvVars>>

NextMain ==
    \/ MainStart
    \/ \E arg \in Tokens : MainLoop(arg)
    \/ MainEnd

SpecMain == InitMain /\ [][NextMain]_vars

\* the command line is a sequence of role, name, date triples
Triples == [k \in 1..(Len(argv) \div 3) |-> SubSeq(argv, 3 * k - 2, 3 * k)]
WellFormedArgs ==
    /\ Len(argv) % 3 = 0
    /\ \A k \in 1..(Len(argv) \div 3) :
         /\ argv[3 * k - 2] \in Flags
         /\ ParseDate(argv[3 * k]) # None

ExampleArgs == <<S_self, S_Jane, D_1_2_1985, S_child, S_Jo, D_3_4_2015>>

\* C8: for a 5-digit ZIP followed by well-formed triples, the loop and the
\* statement after it call People.add once per triple, in order, with the
\* triple; 55555 --self Jane 1/2/1985 --child Jo 3/4/2015 gives one insured
\* of Type 1 born 01/02/1985, one child of Type 3 born 03/04/2015, no spouse
\* and a payload without the children-only flag.
C8_OneAddPerTriple ==
    (pc \in {"parsed", "add_raised"} /\ WellFormedArgs) =>
        /\ pc = "parsed"
        /\ ZipMatches(zipcode[1])
        /\ addLog = Triples
        /\ argv = ExampleArgs =>
              /\ insured = Some(Person(S_Jane, D_01_02_1985, 1))
              /\ spouse = None
              /\ children = Some(<<Person(S_Jo, D_03_04_2015, 3)>>)
              /\ covered(insured, spouse, children).err = NoErr
              /\ "OnlyChildCoverage" \notin DOMAIN covered(insured, spouse, children).ret[1]

C8_Witness == pc = "parsed" /\ argv = ExampleArgs /\ Len(addLog) = 2

----------------------------------------------------------------------------
(* SpecNet: one run of get_plans(zipcode, people).  Every action is one   *)
(* request through session together with the statements that consume its  *)
(* response; the responses are drawn from bounded sets.                    *)

RE_MULTILINE == 8   \* re.MULTILINE, which search() receives as its pos argument

Localities ==
    {[Zip |-> Z_97103, County |-> "Clatsop", State |-> "OR"],
     [Zip |-> Z_55555, County |-> "Clark", State |-> "WA"]}

\* res.json() of the locality lookup
LocalityResponses ==
    {[zipCodes |-> ms] : ms \in UNION {[1..n -> Localities] : n \in 0..MaxMatches}}

\* res.text of the plans page: where the PlansInitialData assignment starts
\* (-1 when the page has none) and what its right-hand side decodes to
\* (None when it is not JSON)
Pages ==
    {[marker |-> -1, json |-> None],
     [marker |-> 0, json |-> Some([Results |-> <<>>])],
     [marker |-> 20, json |-> Some([Results |-> <<>>])],
     [marker |-> 20, json |-> None]}

\* set_locality taking the last match instead of the first
set_locality_lookup_last(locality_res) ==
    IF locality_res.zipCodes = <<>>
    THEN [err |-> Raise("IndexError", <<"list index out of range">>), loc |-> None]
    ELSE LET m == locality_res.zipCodes[Len(locality_res.zipCodes)] IN
         [err |-> NoErr, loc |-> Some(<<m.Zip, m.County, m.State>>)]

\* set_locality, from the decoded lookup response to the unpacked
\* (zipcode, county, state)
set_locality_lookup(locality_res) ==
    IF locality_res.zipCodes = <<>>
    THEN [err |-> Raise("IndexError", <<"list index out of range">>), loc |-> None]
    ELSE LET m == locality_res.zipCodes[1] IN
         [err |-> NoErr, loc |-> Some(<<m.Zip, m.County, m.State>>)]

\* set_locality, from the decoded service-area response to its return
set_locality_check(l, services) ==
    IF ~services.HasMedicalServiceArea
    THEN [err |-> Raise("ValueError",
                        <<"Medical plans not available in %s, %s, %s", l[1], l[2], l[3]>>),
          ret |-> None]
    ELSE [err |-> NoErr, ret |-> Some(l)]

\* plancardre.search(res.text, re.MULTILINE) and json.loads of its group
get_plans_extract(page) ==
    IF page.marker < RE_MULTILINE
    THEN [err |-> Raise("ValueError", <<"Couldn't find PlansInitialData in output.">>),
          ret |-> None]
    ELSE IF page.json = None
    THEN [err |-> Raise("JSONDecodeError", <<>>), ret |-> None]
    ELSE [err |-> NoErr, ret |-> page.json]

Request(method, url, data) == [method |-> method, url |-> url, data |-> data]

\* the People object after the add calls of entries, from an empty one
RECURSIVE AddAll(_)
AddAll(entries) ==
    IF entries = <<>>
    THEN [insured |-> None, spouse |-> None, children |-> None, err |-> NoErr]
    ELSE LET before == AddAll(SubSeq(entries, 1, Len(entries) - 1))
         IN  add(before.insured, before.spouse, before.children, entries[Len(entries)])

HouseholdEntries ==
    LET E == {<<S_self, S_Jane, D_1_2_1985>>, <<S_spouse, S_Jo, D_1_2_1985>>,
              <<S_child, S_Jo, D_3_4_2015>>}
    IN  UNION {[1..n -> E] : n \in 0..2}

InitNet ==
    /\ pc = "get_plans"
    /\ err = NoErr
    /\ \E entries \in HouseholdEntries :
         /\ insured = AddAll(entries).insured
         /\ spouse = AddAll(entries).spouse
         /\ children = AddAll(entries).children
         /\ addLog = entries
    /\ payload = None
    /\ zipcode \in {Some(Z_55555), Some(Z_97103)}
    /\ argv = <<>>
    /\ person = None
    /\ InitNetVars /\ InitCsvVars

\* set_locality, lines 100-103
NetLocality ==
    /\ pc = "get_plans"
    /\ reqs' = Append(reqs, Request("GET", "MODA_LOCALITY_URL", zipcode[1]))
    /\ \E res \in LocalityResponses :
         LET r == set_locality_lookup(res) IN
         /\ resps' = Append(resps, res)
         /\ err' = r.err
         /\ loc' = r.loc
         /\ pc' = IF r.err = NoErr THEN "triage" ELSE "locality_raised"
    /\ UNCHANGED <<peopleVars, mainVars, locality, plans, csvVars>>

\* set_locality, lines 104-109
NetTriage ==
    /\ pc = "triage"
    /\ reqs' = Append(reqs, Request("POST", "MODA_TRIAGE_URL",
                 [ZipCode |-> loc[1][1], County |-> loc[1][2], StateCode |-> loc[1][3],
                  IsCurrentMember |-> FALSE, KeepData |-> FALSE]))
    /\ \E has \in BOOLEAN :
         LET services == [HasMedicalServiceArea |-> has]
             r == set_locality_check(loc[1], services)
         IN  /\ resps' = Append(resps, services)
             /\ err' = r.err
             /\ locality' = r.ret
             /\ pc' = IF r.err = NoErr THEN "intake" ELSE "triage_raised"
    /\ UNCHANGED <<peopleVars, mainVars, loc, plans, csvVars>>

\* set_coverage going on to the plans page when people.covered() raises
NetIntake_swallows ==
    /\ pc = "intake"
    /\ \E r \in {covered(insured, spouse, children)} :
       IF r.err # NoErr
       THEN /\ pc' = "plans"
            /\ UNCHANGED <<err, payload, reqs, resps>>
       ELSE /\ payload' = r.ret
            /\ reqs' = Append(reqs, Request("POST", "MODA_INTAKE_URL",
                         [County |-> locality[1][2], CoveredPersonsRequest |-> r.ret[1],
                          Shopper |-> "0", StateCode |-> locality[1][3],
                          ZipCode |-> locality[1][1]]))
            /\ resps' = Append(resps, [ignored |-> TRUE])
            /\ pc' = "plans"
            /\ UNCHANGED err
    /\ UNCHANGED <<insured, spouse, children, addLog, mainVars, loc, locality, plans, csvVars>>

\* set_coverage, lines 118-126: people.covered() is evaluated while the
\* request body is built; the response of the intake call is not decoded
NetIntake ==
    /\ pc = "intake"
    /\ \E r \in {covered(insured, spouse, children)} :
       IF r.err # NoErr
       THEN /\ err' = r.err
            /\ pc' = "covered_raised"
            /\ UNCHANGED <<payload, reqs, resps>>
       ELSE /\ payload' = r.ret
            /\ reqs' = Append(reqs, Request("POST", "MODA_INTAKE_URL",
                         [County |-> locality[1][2], CoveredPersonsRequest |-> r.ret[1],
                          Shopper |-> "0", StateCode |-> locality[1][3],
                          ZipCode |-> locality[1][1]]))
            /\ resps' = Append(resps, [ignored |-> TRUE])
            /\ pc' = "plans"
            /\ UNCHANGED err
    /\ UNCHANGED <<insured, spouse, children, addLog, mainVars, loc, locality, plans, csvVars>>

\* get_plans, lines 133-138
NetPlans ==
    /\ pc = "plans"
    /\ reqs' = Append(reqs, Request("GET", "MODA_PLANS_URL", None))
    /\ \E page \in Pages :
         LET r == get_plans_extract(page) IN
         /\ resps' = Append(resps, page)
         /\ err' = r.err
         /\ plans' = r.ret
         /\ pc' = IF r.err = NoErr THEN "done" ELSE "plans_raised"
    /\ UNCHANGED <<peopleVars, mainVars, loc, locality, csvVars>>

NextNet ==
    \/ NetLocality
    \/ NetTriage
    \/ NetIntake
    \/ NetPlans

SpecNet == InitNet /\ [][NextNet]_vars

RequestOrder ==
    <<<<"GET", "MODA_LOCALITY_URL">>, <<"POST", "MODA_TRIAGE_URL">>,
      <<"POST", "MODA_INTAKE_URL">>, <<"GET", "MODA_PLANS_URL">>>>
Issued == [i \in 1..Len(reqs) |-> <<reqs[i].method, reqs[i].url>>]

\* C6: an empty zipCodes ends set_locality with a data-shape error, not with
\* an out-of-bounds index access, before any service-area request.
C6_EmptyMatchIsShapeError ==
    (Len(resps) >= 1 /\ resps[1].zipCodes = <<>>) =>
        /\ pc = "locality_raised"
        /\ err.type # "IndexError"
        /\ Len(reqs) = 1

\* C7: HasMedicalServiceArea = false ends set_locality with a ValueError
\* whose message carries the Zip, County and State of the first locality
\* match; no tuple is returned.
C7_NoServiceAreaError ==
    (Len(resps) >= 2 /\ ~resps[2].HasMedicalServiceArea) =>
        LET first == resps[1].zipCodes[1] IN
        /\ pc = "triage_raised"
        /\ err = Raise("ValueError", <<"Medical plans not available in %s, %s, %s",
                                       first.Zip, first.County, first.State>>)
        /\ locality = None

C7_Witness ==
    /\ pc = "triage_raised"
    /\ Len(resps[1].zipCodes) = 2
    /\ resps[1].zipCodes[1] # resps[1].zipCodes[2]
    /\ zipcode[1] # resps[1].zipCodes[1].Zip

\* C9: the requests issued are a prefix of locality GET, service-area POST,
\* intake POST, plans-page GET, each at most once, and a failed step is
\* followed by no request.
C9_RequestsArePrefix ==
    /\ Len(reqs) <= 4
    /\ Issued = SubSeq(RequestOrder, 1, Len(reqs))
    /\ pc = "locality_raised" => Len(reqs) = 1
    /\ pc = "triage_raised" => Len(reqs) = 2
    /\ pc = "covered_raised" => Len(reqs) = 2
    /\ pc = "plans_raised" => Len(reqs) = 4
    /\ pc = "done" => Len(reqs) = 4

C9_Witness ==
    /\ pc = "covered_raised" /\ Len(reqs) = 2
    /\ spouse # None /\ insured = None

----------------------------------------------------------------------------
(* SpecCsv: get_plans_csv on a decoded result set.  A Plan is a sequence  *)
(* of <<key, value>> pairs in the dict's iteration order; cols is a        *)
(* function from keys to 0-based column indices; a cell of a row is None   *)
(* or Some(value).                                                         *)

HasKey(plan, key) == \E k \in 1..Len(plan) : plan[k][1] = key
Get(plan, key) == plan[CHOOSE k \in 1..Len(plan) : plan[k][1] = key][2]

\* lines 150-155: the loop over the keys of the first plan, from its k-th key
RECURSIVE DiscoverFrom(_, _, _, _, _)
DiscoverFrom(plan, k, i, c, row) ==
    IF k > Len(plan) THEN [cols |-> c, row |-> row]
    ELSE IF plan[k][1] = "Name" THEN DiscoverFrom(plan, k + 1, i, c, row)
    ELSE DiscoverFrom(plan, k + 1, i + 1, (plan[k][1] :> i) @@ c,
                      Append(row, plan[k][1]))

\* lines 147-156: cols and the header row, from the first plan
Discover(plan) ==
    DiscoverFrom(plan, 1, 2, ("Name" :> 0) @@ ("Rate" :> 1), <<"Name", "Rate">>)

\* row[j] = v on a Python list: IndexError (ok = FALSE) when j is out of range
SetItem(row, j, v) ==
    IF j < Len(row)
    THEN [ok |-> TRUE, row |-> [row EXCEPT ![j + 1] = v]]
    ELSE [ok |-> FALSE, row |-> row]

\* lines 164-170: the loop over the keys of a plan, from its k-th key.  A
\* KeyError or IndexError of the assignment is caught; the handler's print
\* evaluates cols[key] again and its KeyError is not caught.
RECURSIVE FillFrom(_, _, _, _, _)
FillFrom(plan, k, c, row, lines) ==
    IF k > Len(plan) THEN [row |-> row, printed |-> lines, err |-> NoErr]
    ELSE LET key == plan[k][1] IN
         IF key = "Name" THEN FillFrom(plan, k + 1, c, row, lines)
         ELSE IF key \notin DOMAIN c
         THEN [row |-> row, printed |-> lines, err |-> Raise("KeyError", <<key>>)]
         ELSE IF ~SetItem(row, c[key], Some(plan[k][2])).ok
         THEN FillFrom(plan, k + 1, c, row,
                       Append(lines, <<"Exception: ", key, c[key]>>))
         ELSE FillFrom(plan, k + 1, c, SetItem(row, c[key], Some(plan[k][2])).row, lines)

\* lines 157-170: the data row of one result
FillRow(result, c) ==
    LET plan == result.Plan
        row0 == [j \in 1..Cardinality(DOMAIN c) |-> None]
        row1 == IF HasKey(plan, "Name")
                THEN SetItem(row0, 0, Some(Get(plan, "Name"))).row ELSE row0
        i    == IF HasKey(plan, "Name") THEN 1 ELSE 0
        row2 == SetItem(row1, i, Some(result.Rate)).row
    IN  FillFrom(plan, 1, c, row2, <<>>)

PlanKeys == {"Name", "Rate", "Deductible", "OutOfPocketMax"}
PlanValue(key) ==
    CASE key = "Name" -> "A"
      [] key = "Rate" -> "tier 2"
      [] key = "Deductible" -> "500"
      [] key = "OutOfPocketMax" -> "1000"

\* the Plan records: every ordering of up to MaxKeys distinct keys
PlanInputs ==
    LET KeyLists == {ks \in UNION {[1..n -> PlanKeys] : n \in 0..MaxKeys} :
                        \A a, b \in 1..Len(ks) : ks[a] = ks[b] => a = b}
    IN  {[k \in 1..Len(ks) |-> <<ks[k], PlanValue(ks[k])>>] : ks \in KeyLists}

ResultInputs == {[Plan |-> plan, Rate |-> "10"] : plan \in PlanInputs}

InitCsv ==
    /\ pc = "csv"
    /\ err = NoErr
    /\ InitPeopleVars /\ InitMainVars /\ InitNetVars
    /\ resultset \in UNION {[1..n -> ResultInputs] : n \in 0..MaxResults}
    /\ ri = 0
    /\ cols = None
    /\ header = None
    /\ out = <<>>
    /\ printed = <<>>

\* one iteration of "for result in resultset["Results"]"
CsvRow ==
    /\ pc = "csv"
    /\ ri < Len(resultset)
    /\ LET result == resultset[ri + 1]
           d == Discover(result.Plan)
           c == IF cols = None THEN d.cols ELSE cols[1]
           r == FillRow(result, c)
       IN  /\ cols' = Some(c)
           /\ header' = IF cols = None THEN Some(d.row) ELSE header
           /\ printed' = printed \o r.printed
           /\ err' = r.err
           /\ IF r.err = NoErr
              THEN out' = Append(out, r.row) /\ ri' = ri + 1 /\ pc' = "csv"
              ELSE out' = out /\ ri' = ri /\ pc' = "row_raised"
    /\ UNCHANGED <<peopleVars, mainVars, netVars, resultset>>

\* the loop is over
CsvDone ==
    /\ pc = "csv"
    /\ ri = Len(resultset)
    /\ pc' = "done"
    /\ UNCHANGED <<err, peopleVars, mainVars, netVars, csvVars>>

NextCsv ==
    \/ CsvRow
    \/ CsvDone

SpecCsv == InitCsv /\ [][NextCsv]_vars

\* C4: the header comes from the first plan record only; a key of a later
\* record that is not a discovered column is skipped without raising, and
\* the row of that record and of every following record is written.
C4_UnseenKeySkipped ==
    /\ header # None =>
          header[1] = <<"Name", "Rate">>
                      \o SelectSeq([k \in 1..Len(resultset[1].Plan) |-> resultset[1].Plan[k][1]],
                                   LAMBDA key : key # "Name")
    /\ pc # "row_raised"
    /\ pc = "done" => Len(out) = Len(resultset)

\* C5: every data row has the plan's Name in the first column (None when the
\* plan has no Name) and the result's Rate in the second, under the headers
\* Name and Rate.
C5_NameThenRate ==
    \A n \in 1..Len(out) :
        /\ header[1][1] = "Name" /\ header[1][2] = "Rate"
        /\ out[n][1] = IF HasKey(resultset[n].Plan, "Name")
                       THEN Some(Get(resultset[n].Plan, "Name")) ELSE None
        /\ out[n][2] = Some(resultset[n].Rate)

\* C10: every data row has as many fields as the header row, and every
\* discovered column index is a position of the row.
C10_RowMatchesHeader ==
    \A n \in 1..Len(out) :
        /\ Len(out[n]) = Len(header[1])
        /\ \A key \in DOMAIN cols[1] : cols[1][key] < Len(out[n])

====
